---- MODULE Spec2Model ----
(***************************************************************************)
(* A model of lukealbao/circuit-breaker (src/index.js): the CircuitBreaker *)
(* object, its execute wrapper, the classifier onError and the recovery    *)
(* chain armed by open().                                                  *)
(*                                                                         *)
(* Time is kept as the time left on every armed timer (the backoff delay   *)
(* of open() and the callTimeout of a call); Advance lets time pass.  The  *)
(* event loop is single threaded: every action is one callback run to its  *)
(* end.                                                                    *)
(***************************************************************************)
EXTENDS Integers, FiniteSets, Sequences, Bags, TLC

VARIABLES
  state,            \* this._state
  errorCount,       \* this.errorCount
  resetTimeout,     \* this.resetTimeout
  maxFailures,      \* this.maxFailures
  minResetTimeout,  \* this.minResetTimeout
  maxResetTimeout,  \* this.maxResetTimeout
  callTimeout,      \* this.callTimeout
  errorMatch,       \* this.errorMatch, as the set of errors it returns true for
  errorIgnore,      \* this.errorIgnore, as the set of errors it returns true for
  halfOpenCheck,    \* this.halfOpenCheck: "default" or "custom"
  calls,            \* bag of operations invoked by execute and not yet settled
  timers,           \* bag of recovery chains armed by open() and not yet finished
  ev,               \* what the last callback did and what its caller received
  failures          \* history: the classified failures of execute since the
                    \* breaker was last closed (n), as long as nothing but calls
                    \* of execute and their settlements happened since (intact)

vars == <<state, errorCount, resetTimeout, maxFailures, minResetTimeout,
          maxResetTimeout, callTimeout, errorMatch, errorIgnore, halfOpenCheck,
          calls, timers, ev, failures>>

config == <<maxFailures, minResetTimeout, maxResetTimeout, callTimeout,
            errorMatch, errorIgnore, halfOpenCheck>>

(***************************************************************************)
(* Bounds of the model.                                                    *)
(***************************************************************************)
MaxPending == 2    \* operations in flight plus recovery chains pending, at once
MaxErrors == 3     \* errorCount is explored up to this value
MaxDepth == 1      \* open() re-entered from inside its own chain at most this deep
TickHorizon == 3   \* time passes one unit at a time while every timer is this near

(***************************************************************************)
(* Program constants.                                                      *)
(***************************************************************************)
DefaultMaxFailures == 5
DefaultResetTimeout == 500
DefaultMaxResetTimeout == 300000
DefaultCallTimeout == 5000

Undefined == -1    \* an option that is left out of opts

States == {"CLOSED", "OPEN", "HALF_OPEN", "HALF_CLOSED"}

\* Errors a wrapped operation rejects with, and the error of .timeout().
OpErrors == {"e400", "e500"}
TimeoutError == "TimeoutError"
CircuitOpenError == "CircuitOpenError"
Errors == OpErrors \cup {TimeoutError}
\* A rejection of halfOpenCheck.
CheckError == "TestingError"
\* Values a wrapped operation resolves with.
Values == {"ok"}

Min(a, b) == IF a < b THEN a ELSE b
Max(a, b) == IF a > b THEN a ELSE b

(***************************************************************************)
(* The constructor.  opts.x || d takes d for a missing or zero x.          *)
(***************************************************************************)
OrDefault(x, d) == IF x = Undefined \/ x = 0 THEN d ELSE x

CircuitBreaker(opts) ==
  LET minRT == Max(1, OrDefault(opts.resetTimeout, DefaultResetTimeout)) IN
  [ maxFailures     |-> IF opts.maxFailures = Undefined
                          THEN DefaultMaxFailures ELSE opts.maxFailures,
    minResetTimeout |-> minRT,
    maxResetTimeout |-> OrDefault(opts.maxResetTimeout, DefaultMaxResetTimeout),
    callTimeout     |-> OrDefault(opts.callTimeout, DefaultCallTimeout),
    \* this.close()
    state           |-> "CLOSED",
    errorCount      |-> 0,
    resetTimeout    |-> minRT,
    errorMatch      |-> opts.errorMatch,
    errorIgnore     |-> opts.errorIgnore,
    halfOpenCheck   |-> opts.halfOpenCheck ]

\* The default predicates: errorMatch is true of every error, errorIgnore of none.
DefaultErrorMatch == Errors \cup {CheckError}
DefaultErrorIgnore == {}

\* The options the model constructs breakers with.  Either both error
\* predicates are the defaults or both are given.
Options ==
  { o \in [ maxFailures     : {0, 1},
            resetTimeout    : {1},
            maxResetTimeout : {2},
            callTimeout     : {3},
            errorMatch      : {DefaultErrorMatch, {"e500", TimeoutError}},
            errorIgnore     : {DefaultErrorIgnore, {TimeoutError}},
            halfOpenCheck   : {"default", "custom"} ] :
      (o.errorMatch = DefaultErrorMatch) <=> (o.errorIgnore = DefaultErrorIgnore) }

\* Options that leave room for two doublings of resetTimeout, with a
\* halfOpenCheck given by the application.
BackoffOptions ==
  { o \in [ maxFailures     : {0, 1},
            resetTimeout    : {1},
            maxResetTimeout : {4},
            callTimeout     : {3},
            errorMatch      : {DefaultErrorMatch, {"e500", TimeoutError}},
            errorIgnore     : {DefaultErrorIgnore, {TimeoutError}},
            halfOpenCheck   : {"custom"} ] :
      (o.errorMatch = DefaultErrorMatch) <=> (o.errorIgnore = DefaultErrorIgnore) }

\* Options the constructor accepts as they come: resetTimeout left out, below
\* maxResetTimeout or above it.
AnyOptions ==
  [ maxFailures     : {0},
    resetTimeout    : {Undefined, 1, 3},
    maxResetTimeout : {2},
    callTimeout     : {3},
    errorMatch      : {DefaultErrorMatch},
    errorIgnore     : {DefaultErrorIgnore},
    halfOpenCheck   : {"custom"} ]

\* Options that leave both error predicates and halfOpenCheck at their
\* defaults.
DefaultOptions ==
  [ maxFailures     : {0, 1},
    resetTimeout    : {1},
    maxResetTimeout : {2},
    callTimeout     : {3},
    errorMatch      : {DefaultErrorMatch},
    errorIgnore     : {DefaultErrorIgnore},
    halfOpenCheck   : {"default"} ]

(***************************************************************************)
(* The breaker's mutable part as a value, so that one callback can apply   *)
(* several methods in a row.  opened counts the entries into open() made   *)
(* by the callback that is running.                                        *)
(***************************************************************************)
self == [state |-> state, errorCount |-> errorCount,
         resetTimeout |-> resetTimeout, timers |-> timers, opened |-> 0,
         emitted |-> << >>]

Add(B, e) == B (+) SetToBag({e})
Remove(B, e) == B (-) SetToBag({e})

\* A recovery chain of open(): Promise.delay(resetTimeout), then halfOpenCheck.
\* depth counts the open() chains this one was returned into, each with its
\* own .catch(onError).
Timer(delay, depth) == [left |-> delay, depth |-> depth, phase |-> "delay"]

\* Mutant of openAt: the doubled timeout is not capped.
openAtUncapped(b, depth) ==
  LET rt == b.resetTimeout * 2 IN
  [b EXCEPT !.state = "OPEN",
            !.emitted = Append(@, "open"),
            !.resetTimeout = rt,
            !.timers = Add(@, Timer(rt, depth)),
            !.opened = @ + 1]

openAt(b, depth) ==
  LET rt == Min(maxResetTimeout, b.resetTimeout * 2) IN
  [b EXCEPT !.state = "OPEN",
            !.emitted = Append(@, "open"),
            !.resetTimeout = rt,
            !.timers = Add(@, Timer(rt, depth)),
            !.opened = @ + 1]

open(b) == openAt(b, 0)

\* Mutant of close: resetTimeout is not reset.
closeKeepTimeout(b) ==
  [b EXCEPT !.state = "CLOSED", !.errorCount = 0,
            !.emitted = Append(@, "close")]

close(b) ==
  [b EXCEPT !.state = "CLOSED",
            !.errorCount = 0,
            !.resetTimeout = minResetTimeout,
            !.emitted = Append(@, "close")]

halfOpen(b) ==
  [b EXCEPT !.state = "HALF_OPEN", !.emitted = Append(@, "halfOpen")]

halfClose(b) ==
  [b EXCEPT !.state = "HALF_CLOSED", !.emitted = Append(@, "halfClose")]

\* Mutant of Classified: errorIgnore is not consulted.
ClassifiedMatchOnly(err) == err \in errorMatch

\* errorMatch(error) && !errorIgnore(error)
Classified(err) == err \in errorMatch /\ err \notin errorIgnore

\* Mutant of onError: the breaker trips one failure early (>= for >).
onErrorEarly(b, err) ==
  [ self  |-> IF Classified(err)
                THEN LET c == [b EXCEPT !.errorCount = @ + 1] IN
                     IF c.errorCount >= maxFailures THEN open(c) ELSE c
                ELSE b,
    throw |-> err ]

\* Mutant of onError: a failure that trips the breaker is reported to the
\* caller as a CircuitOpenError.
onErrorMasked(b, err) ==
  LET tripped == Classified(err) /\ b.errorCount + 1 > maxFailures IN
  [ self  |-> IF Classified(err)
                THEN LET c == [b EXCEPT !.errorCount = @ + 1] IN
                     IF tripped THEN open(c) ELSE c
                ELSE b,
    throw |-> IF tripped THEN CircuitOpenError ELSE err ]

\* Mutant of onError: the breaker trips one failure late (errorCount has to
\* exceed maxFailures + 1).
onErrorLate(b, err) ==
  [ self  |-> IF Classified(err)
                THEN LET c == [b EXCEPT !.errorCount = @ + 1] IN
                     IF c.errorCount > maxFailures + 1 THEN open(c) ELSE c
                ELSE b,
    throw |-> err ]

\* onError gives the breaker it leaves and the error it throws.
onError(b, err) ==
  [ self  |-> IF Classified(err)
                THEN LET c == [b EXCEPT !.errorCount = @ + 1] IN
                     IF c.errorCount > maxFailures THEN open(c) ELSE c
                ELSE b,
    throw |-> err ]

\* Mutant of closeAndResolve: the value is passed on but the breaker is not
\* closed.
closeAndResolveNoClose(b, value) == [self |-> b, value |-> value]

\* The .then handler of a probe call.
closeAndResolve(b, value) == [self |-> close(b), value |-> value]

\* The bounds every step keeps: b the breaker and cs the calls it leaves.
Bounded(b, cs) ==
  /\ b.errorCount <= MaxErrors
  /\ BagCardinality(cs) + BagCardinality(b.timers) <= MaxPending

Assign(b) ==
  /\ state' = b.state
  /\ errorCount' = b.errorCount
  /\ resetTimeout' = b.resetTimeout
  /\ timers' = b.timers

Run(n) == [intact |-> TRUE, n |-> n]
Broken == [intact |-> FALSE, n |-> 0]

\* op: the callback that ran.  probe, invoked: whether it belongs to a probe
\* call, and whether execute invoked the operation.  arg: what the operation
\* settled with.  outcome, val: what the caller of execute received.  opens:
\* the entries into open() the callback made.
\* arguments, applied: what execute was called with, and what it applied fn to.
\* emitted: the notifications the callback emitted.
Ev(op, probe, invoked, arg, outcome, val, opens) ==
  [op |-> op, probe |-> probe, invoked |-> invoked, arg |-> arg,
   outcome |-> outcome, val |-> val, opens |-> opens,
   arguments |-> << >>, applied |-> << >>, emitted |-> << >>]

\* The event e of a callback that left the breaker b: with the notifications
\* the methods it called have emitted, in order.
Ran(e, b) == [e EXCEPT !.emitted = b.emitted]

\* A callback that is no call of execute and settles none.
Did(op, opens) == Ev(op, FALSE, FALSE, "none", "none", "none", opens)

\* A breaker constructed with one of the options O, and nothing pending.
Constructed(O) ==
  \E opts \in O :
    LET cb == CircuitBreaker(opts) IN
    /\ state = cb.state
    /\ errorCount = cb.errorCount
    /\ resetTimeout = cb.resetTimeout
    /\ maxFailures = cb.maxFailures
    /\ minResetTimeout = cb.minResetTimeout
    /\ maxResetTimeout = cb.maxResetTimeout
    /\ callTimeout = cb.callTimeout
    /\ errorMatch = cb.errorMatch
    /\ errorIgnore = cb.errorIgnore
    /\ halfOpenCheck = cb.halfOpenCheck
    /\ calls = EmptyBag
    /\ timers = EmptyBag
    /\ ev = Did("new", 0)
    /\ failures = Run(0)

Init == Constructed(Options)

\* An operation invoked by execute, raced against .timeout(callTimeout).
\* probe: the execute that invoked it observed HALF_OPEN.
Call(probe) == [probe |-> probe, left |-> callTimeout, phase |-> "pending"]

\* An operation whose call has timed out and that is still running.
Abandoned == [probe |-> FALSE, left |-> 0, phase |-> "abandoned"]

(***************************************************************************)
(* execute(fn, ...args)                                                    *)
(***************************************************************************)
\* Mutant of rejects: the case label 'HALF_CLOSED' is missing from the switch.
rejectsOpenOnly(s) == s = "OPEN"

\* The states in which execute rejects without invoking the operation.
rejects(s) == s \in {"OPEN", "HALF_CLOSED"}

\* What execute can be called with: fn alone, or fn and one argument.
Arguments == {<<"fn">>, <<"fn", "a">>}

\* Mutant of slice: fn itself is passed on among the arguments.
sliceAll(arguments) == arguments

\* Array.prototype.slice.call(arguments, 1)
slice(arguments) == Tail(arguments)

\* fn.apply(null, args) in a call of execute(arguments).
Applied(e, arguments) ==
  [e EXCEPT !.arguments = arguments, !.applied = slice(arguments)]

Execute(arguments) ==
  /\ CASE rejects(state) ->
            /\ ev' = [Ev("execute", FALSE, FALSE, "none",
                         "reject", CircuitOpenError, 0)
                        EXCEPT !.arguments = arguments]
            /\ UNCHANGED <<state, errorCount, resetTimeout, timers, calls, failures>>
       [] state = "HALF_OPEN" ->
            /\ Bounded(self, Add(calls, Call(TRUE)))
            /\ Assign(halfClose(self))
            /\ calls' = Add(calls, Call(TRUE))
            /\ ev' = Ran(Applied(Ev("execute", TRUE, TRUE, "none",
                                    "pending", "none", 0), arguments),
                        halfClose(self))
            /\ failures' = Broken
       [] OTHER ->
            /\ Bounded(self, Add(calls, Call(FALSE)))
            /\ calls' = Add(calls, Call(FALSE))
            /\ ev' = Applied(Ev("execute", FALSE, TRUE, "none",
                                "pending", "none", 0), arguments)
            /\ UNCHANGED <<state, errorCount, resetTimeout, timers, failures>>
  /\ UNCHANGED config

\* Mutant of Resolve: every success clears the failure count, not only the
\* success of a probe.
ResolveClears(c, v) ==
  /\ BagIn(c, calls) /\ c.phase = "pending"
  /\ calls' = Remove(calls, c)
  /\ IF c.probe
       THEN LET r == closeAndResolve(self, v) IN
            /\ Assign(r.self)
            /\ ev' = Ran(Ev("resolve", TRUE, TRUE, v, "resolve", r.value, 0),
                        r.self)
            /\ failures' = Run(0)
       ELSE /\ Assign([self EXCEPT !.errorCount = 0])
            /\ ev' = Ev("resolve", FALSE, TRUE, v, "resolve", v, 0)
            /\ UNCHANGED failures
  /\ UNCHANGED config

\* The operation of call c resolves with v before the timeout.
Resolve(c, v) ==
  /\ BagIn(c, calls) /\ c.phase = "pending"
  /\ calls' = Remove(calls, c)
  /\ IF c.probe
       THEN LET r == closeAndResolve(self, v) IN
            /\ Assign(r.self)
            /\ ev' = Ran(Ev("resolve", TRUE, TRUE, v, "resolve", r.value, 0),
                        r.self)
            /\ failures' = Run(0)
       ELSE /\ ev' = Ev("resolve", FALSE, TRUE, v, "resolve", v, 0)
            /\ UNCHANGED <<state, errorCount, resetTimeout, timers, failures>>
  /\ UNCHANGED config

\* How a failure of an operation moves the history variable.
Counted(err) ==
  IF failures.intact /\ Classified(err)
    THEN Run(failures.n + 1) ELSE failures

\* The operation of call c rejects with err before the timeout.
Reject(c, err) ==
  /\ BagIn(c, calls) /\ c.phase = "pending"
  /\ LET r == onError(self, err) IN
       /\ Bounded(r.self, Remove(calls, c))
       /\ Assign(r.self)
       /\ ev' = Ran(Ev("reject", c.probe, TRUE, err,
                      "reject", r.throw, r.self.opened), r.self)
  /\ calls' = Remove(calls, c)
  /\ failures' = Counted(err)
  /\ UNCHANGED config

\* callTimeout elapses on call c: .timeout() rejects with a TimeoutError.  The
\* operation itself keeps running.
Timeout(c) ==
  /\ BagIn(c, calls) /\ c.phase = "pending" /\ c.left = 0
  /\ LET r == onError(self, TimeoutError) IN
       /\ Bounded(r.self, calls)
       /\ Assign(r.self)
       /\ ev' = Ran(Ev("timeout", c.probe, TRUE, TimeoutError,
                      "reject", r.throw, r.self.opened), r.self)
  /\ calls' = Add(Remove(calls, c), Abandoned)
  /\ failures' = Counted(TimeoutError)
  /\ UNCHANGED config

\* Mutant of LateSettle: the late rejection of the operation reaches onError
\* too, as if .catch were attached to the operation and not to .timeout().
LateSettleCounted ==
  /\ BagIn(Abandoned, calls)
  /\ calls' = Remove(calls, Abandoned)
  /\ Assign([self EXCEPT !.errorCount = Min(MaxErrors, @ + 1)])
  /\ ev' = Did("late", 0)
  /\ UNCHANGED failures
  /\ UNCHANGED config

\* An operation whose call already timed out settles at last: nobody listens.
LateSettle ==
  /\ BagIn(Abandoned, calls)
  /\ calls' = Remove(calls, Abandoned)
  /\ ev' = Did("late", 0)
  /\ UNCHANGED <<state, errorCount, resetTimeout, timers, failures>>
  /\ UNCHANGED config

(***************************************************************************)
(* The chain armed by open(): the delay, halfOpenCheck, its result.        *)
(***************************************************************************)
\* The breaker with chain t taken off the pending ones.
Without(t) == [self EXCEPT !.timers = Remove(timers, t)]

\* The delay of chain t has elapsed: halfOpenCheck is invoked.  The default
\* check is an already resolved promise of true, so the chain goes on to
\* halfOpen() in the same turn of the event loop; a custom check resolves in
\* a later turn.
Fire(t) ==
  /\ BagIn(t, timers) /\ t.phase = "delay" /\ t.left = 0
  /\ IF halfOpenCheck = "default"
       THEN /\ Assign(halfOpen(Without(t)))
            /\ ev' = Ran(Did("fire", 0), halfOpen(Without(t)))
            /\ failures' = Broken
       ELSE /\ timers' = Add(Remove(timers, t), [t EXCEPT !.phase = "check"])
            /\ ev' = Did("fire", 0)
            /\ UNCHANGED <<state, errorCount, resetTimeout, failures>>
  /\ UNCHANGED <<calls, config>>

\* The custom halfOpenCheck of chain t resolves true.
CheckTrue(t) ==
  /\ BagIn(t, timers) /\ t.phase = "check"
  /\ Assign(halfOpen(Without(t)))
  /\ ev' = Ran(Did("checkTrue", 0), halfOpen(Without(t)))
  /\ failures' = Broken
  /\ UNCHANGED <<calls, config>>

\* Mutant of CheckFalse: the test of ok is inverted, a false check half-opens.
CheckFalseInverted(t) ==
  /\ BagIn(t, timers) /\ t.phase = "check"
  /\ Assign(halfOpen(Without(t)))
  /\ ev' = Did("checkFalse", 0)
  /\ failures' = Broken
  /\ UNCHANGED <<calls, config>>

\* The custom halfOpenCheck of chain t resolves false: open() is entered again
\* and its chain is returned into chain t.
CheckFalse(t) ==
  /\ BagIn(t, timers) /\ t.phase = "check"
  /\ t.depth < MaxDepth
  /\ LET b == openAt(Without(t), t.depth + 1) IN
       /\ Assign(b)
       /\ ev' = Ran(Did("checkFalse", b.opened), b)
  /\ failures' = Broken
  /\ UNCHANGED <<calls, config>>

\* The .catch of chain t runs onError with the rejection and onError throws it
\* again: the chain is done if it is the outermost one, and otherwise the
\* chain it was returned into is rejected in turn.
Caught(t) ==
  LET rest == IF t.depth = 0 THEN Remove(timers, t)
              ELSE Add(Remove(timers, t),
                       [t EXCEPT !.phase = "thrown", !.depth = @ - 1])
  IN  onError([self EXCEPT !.timers = rest], CheckError).self

\* The custom halfOpenCheck of chain t rejects.
CheckReject(t) ==
  /\ BagIn(t, timers) /\ t.phase = "check"
  /\ LET b == Caught(t) IN
       /\ Bounded(b, calls)
       /\ Assign(b)
       /\ ev' = Ran(Did("checkReject", b.opened), b)
  /\ failures' = Broken
  /\ UNCHANGED <<calls, config>>

\* The rejection of chain t reaches the .catch of the chain around it.
Rethrow(t) ==
  /\ BagIn(t, timers) /\ t.phase = "thrown"
  /\ LET b == Caught(t) IN
       /\ Bounded(b, calls)
       /\ Assign(b)
       /\ ev' = Ran(Did("rethrow", b.opened), b)
  /\ failures' = Broken
  /\ UNCHANGED <<calls, config>>

(***************************************************************************)
(* The public transitions, called by the application.                      *)
(***************************************************************************)
CallOpen ==
  /\ LET b == open(self) IN
       /\ Bounded(b, calls)
       /\ Assign(b)
       /\ ev' = Ran(Did("open", b.opened), b)
  /\ failures' = Broken
  /\ UNCHANGED <<calls, config>>

CallClose ==
  /\ Assign(close(self))
  /\ ev' = Ran(Did("close", 0), close(self))
  /\ failures' = Run(0)
  /\ UNCHANGED <<calls, config>>

CallHalfOpen ==
  /\ Assign(halfOpen(self))
  /\ ev' = Ran(Did("halfOpen", 0), halfOpen(self))
  /\ failures' = Broken
  /\ UNCHANGED <<calls, config>>

CallHalfClose ==
  /\ Assign(halfClose(self))
  /\ ev' = Ran(Did("halfClose", 0), halfClose(self))
  /\ failures' = Broken
  /\ UNCHANGED <<calls, config>>

(***************************************************************************)
(* Time.                                                                   *)
(***************************************************************************)
Running(B) == {e \in BagToSet(B) : e.phase \in {"pending", "delay"}}

Lefts == {c.left : c \in Running(calls)} \cup {t.left : t \in Running(timers)}

\* The time to the next timer, if any is armed.
MinLeft == {l \in Lefts : \A m \in Lefts : l <= m}

\* Bag B after d units of time.
Aged(B, d) ==
  LET age(e) == IF e \in Running(B) THEN [e EXCEPT !.left = @ - d] ELSE e
      S == BagToSet(B)
  IN  [x \in {age(e) : e \in S} |-> CopiesIn(CHOOSE e \in S : age(e) = x, B)]

\* d units of time pass; no timer is overrun, and a rejection on its way
\* through the .catch handlers gets there before any time passes.  Time passes
\* one unit at a time while every timer is near, and up to the next timer
\* otherwise.
Advance(d) ==
  /\ Lefts # {}
  /\ \A t \in BagToSet(timers) : t.phase # "thrown"
  /\ d > 0
  /\ \A l \in Lefts : d <= l
  /\ \/ d \in MinLeft
     \/ d = 1 /\ \A l \in Lefts : l <= TickHorizon
  /\ calls' = Aged(calls, d)
  /\ timers' = Aged(timers, d)
  /\ ev' = Did("advance", 0)
  /\ UNCHANGED <<state, errorCount, resetTimeout, failures, config>>

(***************************************************************************)
(* The breaker driven through execute alone, and with the application      *)
(* calling the public transitions too.                                     *)
(***************************************************************************)
NextExec ==
  \/ \E arguments \in Arguments : Execute(arguments)
  \/ \E c \in BagToSet(calls) : \E v \in Values : Resolve(c, v)
  \/ \E c \in BagToSet(calls) : \E err \in OpErrors : Reject(c, err)
  \/ \E c \in BagToSet(calls) : Timeout(c)
  \/ LateSettle
  \/ \E t \in BagToSet(timers) : Fire(t)
  \/ \E t \in BagToSet(timers) : CheckTrue(t)
  \/ \E t \in BagToSet(timers) : CheckFalse(t)
  \/ \E t \in BagToSet(timers) : CheckReject(t)
  \/ \E t \in BagToSet(timers) : Rethrow(t)
  \/ \E d \in {1} \cup MinLeft : Advance(d)

NextCalls ==
  \/ CallOpen
  \/ CallClose
  \/ CallHalfOpen
  \/ CallHalfClose

Next == NextExec \/ NextCalls

Spec == Init /\ [][Next]_vars

ExecSpec == Init /\ [][NextExec]_vars

\* An operation in flight settles: it resolves, rejects or runs into callTimeout.
Settle ==
  \E c \in BagToSet(calls) :
    \/ \E v \in Values : Resolve(c, v)
    \/ \E err \in OpErrors : Reject(c, err)
    \/ Timeout(c)

\* The breaker driven through execute, with a halfOpenCheck that resolves
\* false every time it is invoked.
NextFalse ==
  \/ \E arguments \in Arguments : Execute(arguments)
  \/ \E c \in BagToSet(calls) : \E v \in Values : Resolve(c, v)
  \/ \E c \in BagToSet(calls) : \E err \in OpErrors : Reject(c, err)
  \/ \E c \in BagToSet(calls) : Timeout(c)
  \/ LateSettle
  \/ \E t \in BagToSet(timers) : Fire(t)
  \/ \E t \in BagToSet(timers) : CheckFalse(t)
  \/ \E d \in {1} \cup MinLeft : Advance(d)

\* Time passes, a timer that is due runs its callback, a check that was
\* invoked resolves, and .timeout(callTimeout) settles every call in the end.
FalseSpec ==
  /\ Constructed(BackoffOptions)
  /\ [][NextFalse]_vars
  /\ WF_vars(\E d \in {1} \cup MinLeft : Advance(d))
  /\ WF_vars(\E t \in BagToSet(timers) : Fire(t))
  /\ WF_vars(\E t \in BagToSet(timers) : CheckFalse(t))
  /\ WF_vars(Settle)

\* The breaker driven through execute with the default halfOpenCheck, which
\* has resolved true by the time the delay's callback is over.
NextDefault ==
  \/ \E arguments \in Arguments : Execute(arguments)
  \/ \E c \in BagToSet(calls) : \E v \in Values : Resolve(c, v)
  \/ \E c \in BagToSet(calls) : \E err \in OpErrors : Reject(c, err)
  \/ \E c \in BagToSet(calls) : Timeout(c)
  \/ LateSettle
  \/ \E t \in BagToSet(timers) : Fire(t)
  \/ \E d \in {1} \cup MinLeft : Advance(d)

\* Time passes, a timer that is due runs its callback, every call settles in
\* the end, and the application keeps calling execute.
DefaultSpec ==
  /\ Constructed(DefaultOptions)
  /\ [][NextDefault]_vars
  /\ WF_vars(\E d \in {1} \cup MinLeft : Advance(d))
  /\ WF_vars(\E t \in BagToSet(timers) : Fire(t))
  /\ WF_vars(Settle)
  /\ WF_vars(\E arguments \in Arguments : Execute(arguments))

\* The breaker constructed with any of the options the constructor accepts.
AnySpec == Constructed(AnyOptions) /\ [][Next]_vars

TypeOK ==
  /\ state \in States
  /\ errorCount \in 0..MaxErrors
  /\ BagCardinality(calls) + BagCardinality(timers) <= MaxPending

(***************************************************************************)
(* Properties.                                                             *)
(***************************************************************************)
Pending == {c \in BagToSet(calls) : c.phase = "pending"}
ProbePending == \E c \in Pending : c.probe
Failed(e) == e.op \in {"reject", "timeout"}

\* C1: an execute called while the state is OPEN or HALF_CLOSED does not
\* invoke the operation (no call is added, nothing of the breaker changes) and
\* its caller receives a rejection with CircuitOpenError.
C1_RejectsWhileOpen ==
  [][ (ev'.op = "execute" /\ state \in {"OPEN", "HALF_CLOSED"})
        => /\ ~ev'.invoked
           /\ ev'.outcome = "reject" /\ ev'.val = CircuitOpenError
           /\ calls' = calls
           /\ UNCHANGED <<state, errorCount, resetTimeout, timers>> ]_vars

\* An execute was rejected while a probe call was in flight in HALF_CLOSED.
C1_Witness ==
  /\ ev.op = "execute" /\ ev.val = CircuitOpenError
  /\ state = "HALF_CLOSED" /\ ProbePending

\* C2: in a run of classified failures of execute that starts from CLOSED with
\* errorCount = 0, the state is CLOSED after each of the first maxFailures
\* failures and OPEN after failure number maxFailures + 1.
C2_TripsAtNext ==
  failures.intact =>
    /\ failures.n <= maxFailures => state = "CLOSED" /\ errorCount = failures.n
    /\ failures.n = maxFailures + 1 => state = "OPEN"

\* With maxFailures = 1 the second failure of a run has opened the breaker.
C2_Witness ==
  /\ failures.intact /\ maxFailures = 1 /\ failures.n = 2
  /\ state = "OPEN" /\ Failed(ev)

\* C3: a failure of a wrapped operation (rejection or timeout) adds exactly 1
\* to errorCount if errorMatch is true of the error and errorIgnore is false of
\* it, and otherwise leaves state, errorCount and resetTimeout as they are;
\* with the default predicates every failure adds 1.
C3_CountsIffClassified ==
  [][ Failed(ev') =>
        /\ (ev'.arg \in errorMatch /\ ev'.arg \notin errorIgnore)
             => errorCount' = errorCount + 1
        /\ ~(ev'.arg \in errorMatch /\ ev'.arg \notin errorIgnore)
             => UNCHANGED <<state, errorCount, resetTimeout>>
        /\ (errorMatch = DefaultErrorMatch /\ errorIgnore = DefaultErrorIgnore)
             => errorCount' = errorCount + 1 ]_vars

\* A timeout that errorIgnore ignores, after a failure that was counted.
C3_Witness ==
  /\ ev.op = "timeout" /\ TimeoutError \in errorIgnore
  /\ errorCount = 1

\* C4: the caller of an execute whose operation failed receives the error of
\* the operation (the TimeoutError for a timeout), and a CircuitOpenError is
\* received only from an execute that did not invoke the operation.
C4_SameError ==
  /\ Failed(ev) => ev.outcome = "reject" /\ ev.val = ev.arg
  /\ ev.op = "timeout" => ev.val = TimeoutError
  /\ ev.val = CircuitOpenError => ev.op = "execute" /\ ~ev.invoked

\* A rejection that tripped the breaker, under custom predicates.
C4_Witness ==
  /\ ev.op = "reject" /\ ev.opens = 1 /\ ev.val = "e500"
  /\ errorMatch # DefaultErrorMatch

\* The probe calls in flight.
Probes ==
  LET S == {c \in Pending : c.probe} IN
  BagCardinality([c \in S |-> CopiesIn(c, calls)])

\* C5: an execute called in HALF_OPEN moves the state to HALF_CLOSED within
\* the call, and an execute called while that probe is still unsettled is
\* rejected without invoking its operation.
C5_ProbeBlocksExecute ==
  [][ ev'.op = "execute" =>
        /\ state = "HALF_OPEN" => state' = "HALF_CLOSED" /\ ev'.probe
        /\ ProbePending => ~ev'.invoked /\ ev'.val = CircuitOpenError ]_vars

\* C6: at most one probe call is outstanding.
C6_SingleProbe == Probes <= 1

\* C7: when a probe call succeeds the breaker is CLOSED with errorCount = 0
\* and resetTimeout = minResetTimeout, and the caller of execute receives the
\* value of the operation.
C7_ProbeSuccessCloses ==
  (ev.op = "resolve" /\ ev.probe) =>
    /\ state = "CLOSED" /\ errorCount = 0 /\ resetTimeout = minResetTimeout
    /\ ev.outcome = "resolve" /\ ev.val = ev.arg /\ ev.val \in Values

\* A probe call has succeeded and its caller has the value.
C7_Witness ==
  /\ ev.op = "resolve" /\ ev.probe /\ ev.val = "ok"
  /\ state = "CLOSED" /\ failures = Run(0)

\* C8: when a probe call ends in a classified failure the state becomes OPEN,
\* whatever maxFailures and errorCount are.
C8_ProbeFailureOpens ==
  (Failed(ev) /\ ev.probe /\ ev.arg \in errorMatch /\ ev.arg \notin errorIgnore)
    => state = "OPEN"

\* k entries into open(): the timeout doubled k times under the cap.
RECURSIVE Doubled(_, _)
Doubled(rt, k) ==
  IF k = 0 THEN rt ELSE Doubled(Min(maxResetTimeout, 2 * rt), k - 1)

\* A failure of an operation that pushes errorCount above maxFailures.
Trips(e) ==
  /\ Failed(e) /\ e.arg \in errorMatch /\ e.arg \notin errorIgnore
  /\ errorCount + 1 > maxFailures

C10_CloseResets ==
  [][ (ev'.op = "close" \/ (ev'.op = "resolve" /\ ev'.probe)) =>
        /\ state' = "CLOSED" /\ errorCount' = 0
        /\ resetTimeout' = minResetTimeout
        /\ UNCHANGED <<maxFailures, minResetTimeout, maxResetTimeout,
                       callTimeout>> ]_vars

\* close() was called on a breaker that had tripped and backed off.
C10_Witness ==
  /\ ev.op = "close" /\ state = "CLOSED" /\ timers # EmptyBag
  /\ resetTimeout = minResetTimeout /\ resetTimeout < maxResetTimeout

\* The recovery chains whose delay is still running.
Delaying(B) == {t \in BagToSet(B) : t.phase = "delay"}

\* A step in which a halfOpenCheck resolved true.
CheckPassed(e) ==
  e.op = "checkTrue" \/ (e.op = "fire" /\ halfOpenCheck = "default")

\* The number of recovery chains whose delay is still running.
Delays(B) ==
  LET S == Delaying(B) IN BagCardinality([t \in S |-> CopiesIn(t, B)])

\* C11: every entry into open() arms one chain whose delay is the resetTimeout
\* that entry computed; halfOpenCheck is invoked for a chain once, when its
\* delay has run out and not before; a check that resolves true leaves the
\* state HALF_OPEN; and the state is OPEN as long as a delay has time left.
C11_CheckAfterDelay ==
  [][ /\ ev'.opens >= 1 =>
           \E t \in Delaying(timers') : t.left = resetTimeout'
      /\ Delays(timers') =
           Delays(timers) + ev'.opens - (IF ev'.op = "fire" THEN 1 ELSE 0)
      /\ ev'.op = "fire" =>
           \E t \in Delaying(timers) :
             t.left = 0 /\ CopiesIn(t, timers') = CopiesIn(t, timers) - 1
      /\ CheckPassed(ev') => state' = "HALF_OPEN"
      /\ (\E t \in Delaying(timers') : t.left > 0) => state' = "OPEN" ]_vars

\* C12: with a halfOpenCheck that always resolves false, a breaker that is
\* OPEN stays OPEN and HALF_OPEN is never reached; every check that resolves
\* false enters open() once, which doubles resetTimeout under the cap and arms
\* another delayed check; resetTimeout never decreases while OPEN, reaches
\* maxResetTimeout and stays there.
C12_FalseCheckStaysOpen ==
  /\ [][ /\ state = "OPEN" =>
              /\ state' = "OPEN"
              /\ resetTimeout' >= resetTimeout
              /\ resetTimeout = maxResetTimeout => resetTimeout' = maxResetTimeout
         /\ state' # "HALF_OPEN"
         /\ ev'.op = "checkFalse" =>
              /\ ev'.opens = 1
              /\ resetTimeout' = Min(maxResetTimeout, 2 * resetTimeout)
              /\ \E t \in Delaying(timers') : t.left = resetTimeout' ]_vars
  /\ (state = "OPEN") ~> (state = "OPEN" /\ resetTimeout = maxResetTimeout)

\* A check resolved false when resetTimeout was below the cap, and the
\* doubling has brought it to the cap.
C12_Witness ==
  /\ ev.op = "checkFalse" /\ state = "OPEN"
  /\ resetTimeout = maxResetTimeout /\ maxResetTimeout = 4 * minResetTimeout
  /\ \A t \in BagToSet(timers) : t.depth = 1 /\ t.left = resetTimeout

\* C13: when the halfOpenCheck of a chain rejects while the state is OPEN,
\* the state stays OPEN, open() is entered once more, resetTimeout is doubled
\* under the cap and another delayed check is armed for that timeout,
\* whatever errorCount, maxFailures, errorMatch and errorIgnore are.
C13_RejectedCheckRearms ==
  [][ (ev'.op = "checkReject" /\ state = "OPEN") =>
        /\ state' = "OPEN"
        /\ ev'.opens = 1
        /\ resetTimeout' = Min(maxResetTimeout, 2 * resetTimeout)
        /\ \E t \in Delaying(timers') : t.left = resetTimeout' ]_vars

\* C14: without explicit calls of close(), halfOpen() or halfClose(), the
\* state leaves OPEN only by the step of a recovery chain whose delay has run
\* out and whose halfOpenCheck resolved true, and then to HALF_OPEN; no
\* settlement of a call of execute moves the state out of OPEN.
C14_OnlyProberLeavesOpen ==
  [][ (state = "OPEN" /\ state' # "OPEN") =>
        /\ CheckPassed(ev')
        /\ state' = "HALF_OPEN"
        /\ ev'.op \notin {"resolve", "reject", "timeout", "late"} ]_vars

\* C15: a call of execute applies the operation once, to the arguments that
\* follow it, when the state it finds is CLOSED or HALF_OPEN, and not at all
\* otherwise; no other step invokes an operation (none is invoked again after
\* a failure or a timeout); and the caller of a call whose operation resolved
\* receives the value it resolved with.
C15_InvokesOnce ==
  [][ /\ ev'.op = "execute" =>
           IF state \in {"CLOSED", "HALF_OPEN"}
             THEN /\ ev'.invoked
                  /\ BagCardinality(calls') = BagCardinality(calls) + 1
                  /\ Len(ev'.applied) = Len(ev'.arguments) - 1
                  /\ \A i \in 1..Len(ev'.applied) :
                       ev'.applied[i] = ev'.arguments[i + 1]
             ELSE /\ ~ev'.invoked
                  /\ calls' = calls
      /\ ev'.op # "execute" =>
           BagCardinality(calls') <= BagCardinality(calls)
      /\ ev'.op = "resolve" =>
           ev'.outcome = "resolve" /\ ev'.val = ev'.arg /\ ev'.val \in Values ]_vars

\* A probe call was started with an argument after the breaker had tripped.
C15_Witness ==
  /\ ev.op = "execute" /\ ev.invoked /\ ev.probe
  /\ ev.arguments = <<"fn", "a">> /\ ev.applied = <<"a">>
  /\ errorCount > maxFailures /\ Probes = 1

\* The operations still running whose call of execute has been settled by
\* .timeout().
AbandonedCalls == CopiesIn(Abandoned, calls)

\* C16: when callTimeout runs out on a call whose operation has not settled,
\* the caller receives a TimeoutError and the breaker treats it as any failure:
\* counted once if the predicates classify it, opening the breaker if that
\* passes maxFailures, and nothing changed otherwise; the call is settled for
\* good, and the later settlement of its operation changes neither what the
\* caller received nor state, errorCount or resetTimeout.
C16_TimeoutThenIgnored ==
  [][ /\ ev'.op = "timeout" =>
           /\ \E c \in Pending : c.left = 0 /\ calls' = Add(Remove(calls, c), Abandoned)
           /\ ev'.outcome = "reject" /\ ev'.val = TimeoutError
           /\ IF TimeoutError \in errorMatch /\ TimeoutError \notin errorIgnore
                THEN /\ errorCount' = errorCount + 1
                     /\ IF errorCount + 1 > maxFailures
                          THEN state' = "OPEN" /\ ev'.opens = 1
                          ELSE state' = state /\ resetTimeout' = resetTimeout
                ELSE UNCHANGED <<state, errorCount, resetTimeout, timers>>
      /\ ev'.op = "late" =>
           /\ AbandonedCalls > 0
           /\ ev'.outcome = "none" /\ ev'.val = "none"
           /\ UNCHANGED <<state, errorCount, resetTimeout, timers>>
      /\ (ev'.op \in {"resolve", "reject"}) =>
           \E c \in Pending : calls' = Remove(calls, c) ]_vars

\* The operation of a call settled after its timeout had tripped the breaker.
C16_Witness ==
  /\ ev.op = "late" /\ calls = EmptyBag
  /\ state = "OPEN" /\ maxFailures = 0 /\ errorCount = 1
  /\ errorIgnore = DefaultErrorIgnore

\* C17: a call of execute made while the state is HALF_CLOSED, errorCount is
\* above maxFailures and nothing is pending is rejected, and leaves one
\* recovery chain armed whose halfOpenCheck is due within the next reset
\* timeout, min(maxResetTimeout, 2 * resetTimeout).
C17_RejectedExecuteRearms ==
  [][ ( /\ ev'.op = "execute"
        /\ state = "HALF_CLOSED" /\ errorCount > maxFailures
        /\ timers = EmptyBag /\ calls = EmptyBag ) =>
        /\ ev'.outcome = "reject" /\ ev'.val = CircuitOpenError
        /\ BagCardinality(timers') = 1
        /\ \E t \in Delaying(timers') :
             t.left <= Min(maxResetTimeout, 2 * resetTimeout) ]_vars

\* C18: whatever options the breaker was constructed with, and however it is
\* driven through execute, open, close, halfOpen and halfClose,
\* minResetTimeout <= resetTimeout <= maxResetTimeout.
C18_TimeoutWithinRange ==
  minResetTimeout <= resetTimeout /\ resetTimeout <= maxResetTimeout

\* C19: errorCount goes to 0 only in a step that calls close() and so leaves
\* the state CLOSED; every other step leaves it as it is or adds exactly 1;
\* and the success of a call that is no probe changes none of state,
\* errorCount and resetTimeout.
C19_ErrorCountSteps ==
  [][ /\ errorCount' # errorCount =>
           \/ /\ errorCount' = 0 /\ state' = "CLOSED"
              /\ ev'.op = "close" \/ (ev'.op = "resolve" /\ ev'.probe)
           \/ /\ errorCount' = errorCount + 1
              /\ ev'.op \in {"reject", "timeout", "checkReject", "rethrow"}
      /\ (ev'.op = "resolve" /\ ~ev'.probe) =>
           UNCHANGED <<state, errorCount, resetTimeout>> ]_vars

\* A call that is no probe succeeded while CLOSED after a failure was counted,
\* and the count is still there.
C19_Witness ==
  /\ ev.op = "resolve" /\ ~ev.probe
  /\ state = "CLOSED" /\ errorCount = 1 /\ maxFailures = 1
  /\ failures = Run(1)

\* C20: driven through execute alone, the state leaves CLOSED only for OPEN,
\* and only in the step in which a classified failure of a call takes
\* errorCount above maxFailures.
C20_ClosedLeavesToOpen ==
  [][ (state = "CLOSED" /\ state' # "CLOSED") =>
        /\ state' = "OPEN"
        /\ Trips(ev')
        /\ errorCount' = errorCount + 1 ]_vars

\* A step that settles a probe call: its operation resolved or rejected, or
\* callTimeout ran out on it.
ProbeSettled(e) == e.probe /\ e.op \in {"resolve", "reject", "timeout"}

\* C21: driven through execute alone, a probe call is in flight whenever the
\* state is HALF_CLOSED, and the step that settles a probe call (success,
\* classified or unclassified failure, timeout) leaves a state other than
\* HALF_CLOSED.
C21_HalfClosedHasProbe ==
  [][ /\ state' = "HALF_CLOSED" => ProbePending'
      /\ ProbeSettled(ev') => state' # "HALF_CLOSED" ]_vars

\* C22: with the default predicates and the default halfOpenCheck, driven
\* through execute alone, a breaker that rejects calls (OPEN or HALF_CLOSED)
\* gets to HALF_OPEN or CLOSED again, for maxFailures 0 and above.
C22_Recovers ==
  (state \in {"OPEN", "HALF_CLOSED"}) ~> (state \in {"HALF_OPEN", "CLOSED"})

\* The recovery checks pending: the chains whose delay is running or whose
\* halfOpenCheck has been invoked and has not settled.
RecoveryChecks ==
  LET S == {t \in BagToSet(timers) : t.phase \in {"delay", "check"}}
  IN  BagCardinality([t \in S |-> CopiesIn(t, timers)])

\* C23: driven through execute alone, at most one recovery check is pending
\* at any time, and a failure that arrives when the breaker is already OPEN
\* neither arms another timer nor doubles resetTimeout again.
C23_SingleRecoveryCheck ==
  [][ /\ RecoveryChecks' <= 1
      /\ (state = "OPEN" /\ Failed(ev')) =>
           ev'.opens = 0 /\ resetTimeout' = resetTimeout ]_vars

\* The notifications of name n among those a callback emitted.
Emitted(e, n) == {i \in 1..Len(e.emitted) : e.emitted[i] = n}

\* C24: when a halfOpenCheck rejects, in a first or in a re-entered open(),
\* the callbacks that handle the rejection emit an "error" notification and
\* leave errorCount as it is.
C24_CheckErrorNotCounted ==
  [][ ev'.op \in {"checkReject", "rethrow"} =>
        /\ errorCount' = errorCount
        /\ ev'.op = "checkReject" => Emitted(ev', "error") # {} ]_vars

\* C25: with maxFailures >= 0 fixed at construction, a CLOSED breaker has
\* errorCount <= maxFailures in every reachable state, whatever the
\* interleaving of executions, settlements, timers and direct method calls.
C25_ClosedWithinMaxFailures ==
  (maxFailures >= 0 /\ state = "CLOSED") => errorCount <= maxFailures

\* A CLOSED breaker that has just counted a failure up to maxFailures without
\* tripping.
C25_Witness ==
  /\ state = "CLOSED"
  /\ maxFailures >= 1
  /\ errorCount = maxFailures
  /\ Failed(ev)

====
